---- MODULE Spec2Model ----
(***************************************************************************)
(* Model of skycluster-cli's secret-propagation controller                 *)
(* (cmd/xkube/controller.go) and of its readiness waiter                   *)
(* (internal/utils/watch.go).                                              *)
(*                                                                         *)
(*   Spec / FairSpec          Controller.Run, its watch consumer and       *)
(*                            handleReadyXkube                             *)
(*   SpecWait / FairSpecWait  WaitForResourcesReadySequential and          *)
(*                            waitForSingleResourceReady                   *)
(***************************************************************************)
EXTENDS Integers, Sequences, FiniteSets, TLC

VARIABLES
    \* ---- Controller.Run: the caller's goroutine
    pcMain,          \* "list" | "watch" | "blocked" | "wgwait" | "returned"
    runResult,       \* "none" | "nil" | "listErr" | "watchErr"
    parentCancelled, \* the ctx argument of Run is cancelled
    cancelCalled,    \* cancel() of childCtx has been called
    stopClosed,      \* close(stopCh) has happened
    listedKeys,      \* keys of list.Items (the initial listing)
    total,           \* len(list.Items)
    \* ---- Controller.Run: the watch consumer goroutine
    pcWorker,        \* "none" | "select" | "handler" | "check" | "exited"
    muHeld,          \* mu is locked by the consumer
    readyMap,        \* key -> "absent" | "ready" | "notready"
    ready,           \* the ready counter
    cur,             \* the event being handled (NoEvent at the select)
    evCount,         \* events taken from the result channel so far
    live,            \* keys the watch has announced and not yet deleted
    selfCancels,     \* times the consumer called cancel()
    \* ---- Controller fields and what handleReadyXkube did
    cache,           \* c.ready: cluster name -> kubeconfig held ("" = none)
    deployed,        \* c.deployed as a set of <<source, target>>
    handled,         \* keys for which a handleReadyXkube call has returned
    okApplies,       \* <<source, target>> -> remote applies that returned nil
    delivered,       \* <<secret name, target>> applied successfully
    lastRun,         \* what the latest handleReadyXkube call saw and did
    \* ---- WaitForResourcesReadySequential
    resources,       \* the descriptors: Timeout and PollInterval of each
    wpc,             \* "idle" | "begin" | "loop" | "firstGet" | "select" | "done"
    idx,             \* index (1-based) of the descriptor being awaited
    completed,       \* the completed counter
    events,          \* what the progress sink received, in order
    wresult,         \* what WaitForResourcesReadySequential returned
    waitCancelled,   \* parentCtx is cancelled
    now,             \* clock units since the per-resource context was made
    deadline,        \* deadline of the current per-resource context
    nextTick,        \* when the ticker fires next
    tickPending,     \* a tick is waiting in ticker.C
    reads,           \* descriptor -> reads issued for it
    ticks,           \* descriptor -> poll ticks consumed for it
    firstReady,      \* descriptors whose immediate read showed the condition
    wlog,            \* order of sink events and reads (repeated reads of
                     \* one descriptor are entered once)
    cancelAt,        \* descriptor whose poll loop is running and was
                     \* running when parentCtx was cancelled (0: none)
    sawTransient,    \* a read of the descriptor last awaited was answered
                     \* with not-found or another error, and its wait has
                     \* not failed
    \* ---- ResolveResourceNamesFromManifest
    rspecs,          \* the specs slice: Name is assigned in place
    rspecs0,         \* the specs slice as it was handed in
    cluster,         \* the items the cluster holds, in list order
    rpc,             \* "idle" | "run" | "done"
    ri,              \* index (1-based) of the descriptor the loop is at
    rresult,         \* what ResolveResourceNamesFromManifest returned
    rlists,          \* descriptor -> List calls issued for it
    \* ---- IsConditionTrue
    cobj,            \* the resource argument
    ctype,           \* the conditionType argument
    cpc,             \* "idle" | "call" | "done"
    cresult,         \* the returned boolean
    \* ---- Controller.applySecretToRemote
    ain,             \* the arguments: kc, the origin secret, and whether
                     \* a client can be built from kc
    apc,             \* "idle" | "start" | "get" | "create" | "update" | "done"
    existing,        \* resource version of the object the get returned
    acalls,          \* requests sent to the target, with their outcomes
    aresult,         \* "none" | "nil" | the error returned
    remote,          \* the target's object at the embedded namespace/name
    otherWrites      \* writes to that object by other clients so far

ctlVars == <<pcMain, runResult, parentCancelled, cancelCalled, stopClosed,
             listedKeys, total, pcWorker, muHeld, readyMap, ready, cur,
             evCount, live, selfCancels, cache, deployed, handled,
             okApplies, delivered, lastRun>>

waitVars == <<resources, wpc, idx, completed, events, wresult, waitCancelled,
              now, deadline, nextTick, tickPending, reads, ticks, firstReady,
              wlog, cancelAt, sawTransient>>

resolveVars == <<rspecs, rspecs0, cluster, rpc, ri, rresult, rlists>>

condVars == <<cobj, ctype, cpc, cresult>>

applyVars == <<ain, apc, existing, acalls, aresult, remote, otherWrites>>

pureVars == <<resolveVars, condVars, applyVars>>

vars == <<ctlVars, waitVars, pureVars>>

-----------------------------------------------------------------------------
(* Bounds *)

MaxEvents == 3       \* watch events the consumer takes in one run
MaxSecrets == 2      \* length of one secret listing
MaxRes == 2          \* descriptors handed to the waiter
MaxOverrun == 1      \* clock units the clock runs on past a deadline
MaxItems == 2        \* objects the cluster holds when names are resolved
MaxConds == 2        \* entries of one status.conditions list
MaxOtherWrites == 2  \* writes by other clients to the object being applied

-----------------------------------------------------------------------------
(* The cluster-membership objects and the documents the watch delivers *)

Keys == {"ns/k1", "ns/k2"}

\* status.clusterName an object carries once it is set
NameOf(k) == IF k = "ns/k1" THEN "A" ELSE "B"

ClusterNames == {NameOf(k) : k \in Keys}

ChangeTypes == {"ADDED", "MODIFIED", "DELETED"}

\* one entry of status.conditions: a map with a type and a status, or
\* something that is not a map
Cond(t, s) == [kind |-> "map", type |-> t, status |-> s]
NotAMap == [kind |-> "scalar", type |-> "", status |-> ""]

\* a status field whose value is not a string (a bool, a number)
NotAString == "<not a string>"

\* the status.conditions lists a delivered document may carry
DocConds ==
    { <<>>,
      <<Cond("Ready", "True")>>,
      <<Cond("Ready", "False")>>,
      <<Cond("Synced", "True"), Cond("Ready", "True")>>,
      <<NotAMap, Cond("Ready", "Unknown")>>,
      <<Cond("Ready", "true")>>,
      <<Cond("Ready", "TRUE")>>,
      <<Cond("Ready", "False"), Cond("Ready", "True")>>,
      <<Cond("Ready", NotAString), Cond("Ready", "True")>> }

\* utils.GetConditionStatus: the status of the first entry that is a map of
\* the given type with a string status
RECURSIVE GetConditionStatusFrom(_, _, _)
GetConditionStatusFrom(conds, condType, i) ==
    IF i > Len(conds) THEN ""
    ELSE IF /\ conds[i].kind = "map"
            /\ conds[i].type = condType
            /\ conds[i].status # NotAString
         THEN conds[i].status
         ELSE GetConditionStatusFrom(conds, condType, i + 1)

GetConditionStatus(conds, condType) == GetConditionStatusFrom(conds, condType, 1)

\* Run, "Determine ready status once"
IsReadyDoc(conds) == GetConditionStatus(conds, "Ready") = "True"

NoEvent == [key |-> "", type |-> "", isReady |-> FALSE, clusterName |-> "",
            prev |-> "absent"]

-----------------------------------------------------------------------------
(* The propagatable secrets and handleReadyXkube *)

Secret(n, l) == [name |-> n, label |-> l]

\* label = skycluster.io/cluster-name of the secret
Secrets == { Secret("s1", "A"), Secret("s2", "A"), Secret("s3", "B"),
             Secret("s4", "") }

SourceNames == {s.label : s \in Secrets} \ {""}

Pairs == SourceNames \X ClusterNames

\* the order in which the API server lists secrets: by name
NameBefore(a, b) ==
    \/ a = "s1" /\ b \in {"s2", "s3", "s4"}
    \/ a = "s2" /\ b \in {"s3", "s4"}
    \/ a = "s3" /\ b = "s4"

\* what c.listSecrets may return: some of the secrets, in list order
SecretLists ==
    { l \in UNION { [1..n -> Secrets] : n \in 0..MaxSecrets } :
        \A i, j \in DOMAIN l : i < j => NameBefore(l[i].name, l[j].name) }

FetchOutcomes == {"err", "blank", "kc"}
ApplyOutcomes == {"ok", "fail"}

\* getClusterNameFromXkube: status.clusterName, "" when absent
getClusterNameFromXkube(ev) == ev.clusterName

\* a marking that forgets the pairs marked before
markDeployed_replaces(d, source, target) == {<<source, target>>}

\* a lookup that never finds the pair
isDeployed_never(d, source, target) == FALSE

isDeployed(d, source, target) == <<source, target>> \in d

markDeployed(d, source, target) == d \cup {<<source, target>>}

setReady(c, clusterName, kc) == [c EXCEPT ![clusterName] = kc]

\* what the helpers do with the cache lock (readyMu) and the matrix lock
\* (deployedMu): Lock on entry, deferred Unlock on return
LockOp(l, op) == [lock |-> l, op |-> op]

\* a setReady whose lock stays held after it returns
setReadyLocks_heldOver == <<LockOp("readyMu", "Lock")>>

setReadyLocks == <<LockOp("readyMu", "Lock"), LockOp("readyMu", "Unlock")>>

isDeployedLocks ==
    <<LockOp("deployedMu", "Lock"), LockOp("deployedMu", "Unlock")>>

markDeployedLocks ==
    <<LockOp("deployedMu", "Lock"), LockOp("deployedMu", "Unlock")>>

\* the lock operations of the loop over the secrets, from what was done for
\* each: nothing for a skipped secret, isDeployed for every other one, and
\* markDeployed after an apply that returned nil
RECURSIVE LoopLocks(_, _)
LoopLocks(disp, i) ==
    IF i > Len(disp) THEN <<>>
    ELSE (CASE disp[i] = "skip" -> <<>>
            [] disp[i] = "ok" -> isDeployedLocks \o markDeployedLocks
            [] OTHER -> isDeployedLocks)
         \o LoopLocks(disp, i + 1)

\* the lock operations of one handleReadyXkube call, in order
HandlerLocks(run) ==
    IF run.outcome \in {"listerr", "done"}
    THEN setReadyLocks \o LoopLocks(run.disp, 1)
    ELSE <<>>

\* a loop that gives up at the first apply that fails: the secrets after
\* it are not looked at
RECURSIVE ApplyLoop_stopsAtFailure(_, _, _, _, _)
ApplyLoop_stopsAtFailure(secrets, i, target, res, acc) ==
    IF i > Len(secrets) THEN acc
    ELSE LET src == secrets[i].label IN
         IF src = "" \/ src = target
         THEN ApplyLoop_stopsAtFailure(secrets, i + 1, target, res,
                        [acc EXCEPT !.disp = Append(@, "skip")])
         ELSE IF isDeployed(acc.deployed, src, target)
         THEN ApplyLoop_stopsAtFailure(secrets, i + 1, target, res,
                        [acc EXCEPT !.disp = Append(@, "already")])
         ELSE IF res[i] = "ok"
         THEN ApplyLoop_stopsAtFailure(secrets, i + 1, target, res,
                        [deployed |-> markDeployed(acc.deployed, src, target),
                         disp |-> Append(acc.disp, "ok")])
         ELSE [acc EXCEPT !.disp = Append(@, "fail")
                             \o [j \in 1..(Len(secrets) - i) |-> "skip"]]

\* a loop that skips a secret without a label only, not one of the target
RECURSIVE ApplyLoop_noSelfSkip(_, _, _, _, _)
ApplyLoop_noSelfSkip(secrets, i, target, res, acc) ==
    IF i > Len(secrets) THEN acc
    ELSE LET src == secrets[i].label IN
         IF src = ""
         THEN ApplyLoop_noSelfSkip(secrets, i + 1, target, res,
                        [acc EXCEPT !.disp = Append(@, "skip")])
         ELSE IF isDeployed(acc.deployed, src, target)
         THEN ApplyLoop_noSelfSkip(secrets, i + 1, target, res,
                        [acc EXCEPT !.disp = Append(@, "already")])
         ELSE IF res[i] = "ok"
         THEN ApplyLoop_noSelfSkip(secrets, i + 1, target, res,
                        [deployed |-> markDeployed(acc.deployed, src, target),
                         disp |-> Append(acc.disp, "ok")])
         ELSE ApplyLoop_noSelfSkip(secrets, i + 1, target, res,
                        [acc EXCEPT !.disp = Append(@, "fail")])

\* the loop over the listed secrets; res[i] is what applySecretToRemote
\* returns if it is called for secrets[i]; disp records what was done
RECURSIVE ApplyLoop(_, _, _, _, _)
ApplyLoop(secrets, i, target, res, acc) ==
    IF i > Len(secrets) THEN acc
    ELSE LET src == secrets[i].label IN
         IF src = "" \/ src = target
         THEN ApplyLoop(secrets, i + 1, target, res,
                        [acc EXCEPT !.disp = Append(@, "skip")])
         ELSE IF isDeployed(acc.deployed, src, target)
         THEN ApplyLoop(secrets, i + 1, target, res,
                        [acc EXCEPT !.disp = Append(@, "already")])
         ELSE IF res[i] = "ok"
         THEN ApplyLoop(secrets, i + 1, target, res,
                        [deployed |-> markDeployed(acc.deployed, src, target),
                         disp |-> Append(acc.disp, "ok")])
         ELSE ApplyLoop(secrets, i + 1, target, res,
                        [acc EXCEPT !.disp = Append(@, "fail")])

NoRun == [key |-> "", target |-> "", outcome |-> "none", secrets |-> <<>>,
          disp |-> <<>>]

-----------------------------------------------------------------------------
(* Initial state: NewController has returned, Run is about to start *)

CtlInit ==
    /\ pcMain = "list"
    /\ runResult = "none"
    /\ parentCancelled = FALSE
    /\ cancelCalled = FALSE
    /\ stopClosed = FALSE
    /\ listedKeys = {}
    /\ total = 0
    /\ pcWorker = "none"
    /\ muHeld = FALSE
    /\ readyMap = [k \in Keys |-> "absent"]
    /\ ready = 0
    /\ cur = NoEvent
    /\ evCount = 0
    /\ live = {}
    /\ selfCancels = 0
    /\ cache = [n \in ClusterNames |-> ""]
    /\ deployed = {}
    /\ handled = {}
    /\ okApplies = [p \in Pairs |-> 0]
    /\ delivered = {}
    /\ lastRun = NoRun

\* the waiter is not running
WaitIdle ==
    /\ resources = <<>>
    /\ wpc = "idle"
    /\ idx = 0
    /\ completed = 0
    /\ events = <<>>
    /\ wresult = [status |-> "none", index |-> 0]
    /\ waitCancelled = FALSE
    /\ now = 0
    /\ deadline = 0
    /\ nextTick = 0
    /\ tickPending = FALSE
    /\ reads = <<>>
    /\ ticks = <<>>
    /\ firstReady = {}
    /\ wlog = <<>>
    /\ cancelAt = 0
    /\ sawTransient = FALSE

NoObject == [kind |-> "nil", conds |-> <<>>]

\* nothing has been handed to the resolver or to the condition evaluator
\* no applySecretToRemote call is under way
NoApplyInput == [kc |-> "", data |-> "missing", name |-> "", namespace |-> "",
                 clientErr |-> FALSE]

ApplyIdle ==
    /\ ain = NoApplyInput
    /\ apc = "idle"
    /\ existing = 0
    /\ acalls = <<>>
    /\ aresult = "none"
    /\ remote = [exists |-> FALSE, rv |-> 0]
    /\ otherWrites = 0

PureIdle ==
    /\ ApplyIdle
    /\ rspecs = <<>>
    /\ rspecs0 = <<>>
    /\ cluster = <<>>
    /\ rpc = "idle"
    /\ ri = 0
    /\ rresult = [status |-> "none", index |-> 0]
    /\ rlists = <<>>
    /\ cobj = NoObject
    /\ ctype = ""
    /\ cpc = "idle"
    /\ cresult = FALSE

Init == CtlInit /\ WaitIdle /\ PureIdle

mainVars == <<pcMain, runResult, cancelCalled, stopClosed, listedKeys, total>>
workerVars == <<pcWorker, muHeld, readyMap, ready, cur, evCount, live,
                selfCancels>>
handlerVars == <<cache, deployed, handled, okApplies, delivered, lastRun>>

\* childCtx.Done() is readable
childDone == parentCancelled \/ cancelCalled

-----------------------------------------------------------------------------
(* Controller.Run, the caller's goroutine *)

\* the initial List succeeds with the objects in L
RunList(L) ==
    /\ pcMain = "list"
    /\ pcMain' = "watch"
    /\ listedKeys' = L
    /\ total' = Cardinality(L)
    /\ UNCHANGED <<runResult, parentCancelled, cancelCalled, stopClosed>>
    /\ UNCHANGED <<workerVars, handlerVars>>
    /\ UNCHANGED <<waitVars, pureVars>>

\* the initial List fails: Run returns the error, deferred cancel() runs
RunListFails ==
    /\ pcMain = "list"
    /\ pcMain' = "returned"
    /\ runResult' = "listErr"
    /\ cancelCalled' = TRUE
    /\ UNCHANGED <<parentCancelled, stopClosed, listedKeys, total>>
    /\ UNCHANGED <<workerVars, handlerVars>>
    /\ UNCHANGED <<waitVars, pureVars>>

\* Watch succeeds: the consumer goroutine is started, Run blocks
RunWatch ==
    /\ pcMain = "watch"
    /\ pcMain' = "blocked"
    /\ pcWorker' = "select"
    /\ UNCHANGED <<runResult, parentCancelled, cancelCalled, stopClosed,
                   listedKeys, total>>
    /\ UNCHANGED <<muHeld, readyMap, ready, cur, evCount, live, selfCancels>>
    /\ UNCHANGED handlerVars
    /\ UNCHANGED <<waitVars, pureVars>>

RunWatchFails ==
    /\ pcMain = "watch"
    /\ pcMain' = "returned"
    /\ runResult' = "watchErr"
    /\ cancelCalled' = TRUE
    /\ UNCHANGED <<parentCancelled, stopClosed, listedKeys, total>>
    /\ UNCHANGED <<workerVars, handlerVars>>
    /\ UNCHANGED <<waitVars, pureVars>>

\* <-childCtx.Done() returns; close(stopCh)
RunUnblock ==
    /\ pcMain = "blocked"
    /\ childDone
    /\ pcMain' = "wgwait"
    /\ stopClosed' = TRUE
    /\ UNCHANGED <<runResult, parentCancelled, cancelCalled, listedKeys, total>>
    /\ UNCHANGED <<workerVars, handlerVars>>
    /\ UNCHANGED <<waitVars, pureVars>>

\* a Run that reports the caller's cancellation as an error
RunJoin_returnsCtxErr ==
    /\ pcMain = "wgwait"
    /\ pcWorker = "exited"
    /\ pcMain' = "returned"
    /\ runResult' = IF parentCancelled THEN "ctxErr" ELSE "nil"
    /\ cancelCalled' = TRUE
    /\ UNCHANGED <<parentCancelled, stopClosed, listedKeys, total>>
    /\ UNCHANGED <<workerVars, handlerVars>>
    /\ UNCHANGED <<waitVars, pureVars>>

\* wg.Wait() returns; return nil; deferred Stop() and cancel()
RunJoin ==
    /\ pcMain = "wgwait"
    /\ pcWorker = "exited"
    /\ pcMain' = "returned"
    /\ runResult' = "nil"
    /\ cancelCalled' = TRUE
    /\ UNCHANGED <<parentCancelled, stopClosed, listedKeys, total>>
    /\ UNCHANGED <<workerVars, handlerVars>>
    /\ UNCHANGED <<waitVars, pureVars>>

\* the caller of Run cancels the context it passed
ParentCancel ==
    /\ ~parentCancelled
    /\ pcMain # "returned"
    /\ parentCancelled' = TRUE
    /\ UNCHANGED <<mainVars, workerVars, handlerVars>>
    /\ UNCHANGED <<waitVars, pureVars>>

-----------------------------------------------------------------------------
(* Controller.Run, the watch consumer goroutine *)

\* the readiness the map holds for a boolean
ReadyTag(b) == IF b THEN "ready" ELSE "notready"

\* a counter that misses objects first seen Ready
CountAfter_skipsNew(prev, isReady, n) ==
    IF prev = "absent" THEN n
    ELSE IF prev # ReadyTag(isReady)
         THEN (IF isReady THEN n + 1 ELSE n - 1)
         ELSE n

\* a counter that is never lowered
CountAfter_noDecrement(prev, isReady, n) ==
    IF prev = "absent" THEN (IF isReady THEN n + 1 ELSE n)
    ELSE IF prev # ReadyTag(isReady)
         THEN (IF isReady THEN n + 1 ELSE n)
         ELSE n

\* the ready counter after an event for a key whose map entry is prev
CountAfter(prev, isReady, n) ==
    IF prev = "absent" THEN (IF isReady THEN n + 1 ELSE n)
    ELSE IF prev # ReadyTag(isReady)
         THEN (IF isReady THEN n + 1 ELSE n - 1)
         ELSE n

\* a consumer that calls the handler on a change into Ready only
AfterUpdate_onChangeOnly(prev, isReady) ==
    IF isReady /\ prev # "ready" THEN "handler" ELSE "check"

\* a consumer that hands the event to another goroutine and goes back to
\* its select at once
AfterUpdate_async(prev, isReady) == "select"

\* where the consumer goes after the map update: "If the object is Ready,
\* call the handler", whatever the map held before
AfterUpdate(prev, isReady) == IF isReady THEN "handler" ELSE "check"

\* a consumer that forgets an object when its delete event arrives
WorkerRecvEvent_dropsDeleted(k, ty, conds, name) ==
    /\ pcWorker = "select"
    /\ evCount < MaxEvents
    /\ IF ty = "ADDED" THEN k \notin live ELSE k \in live
    /\ LET isReady == IsReadyDoc(conds)
           prev == readyMap[k]
       IN IF ty = "DELETED"
          THEN /\ readyMap' = [readyMap EXCEPT ![k] = "absent"]
               /\ ready' = IF prev = "ready" THEN ready - 1 ELSE ready
               /\ cur' = [key |-> k, type |-> ty, isReady |-> isReady,
                          clusterName |-> name, prev |-> prev]
               /\ pcWorker' = "check"
          ELSE /\ readyMap' = [readyMap EXCEPT ![k] = ReadyTag(isReady)]
               /\ ready' = CountAfter(prev, isReady, ready)
               /\ cur' = [key |-> k, type |-> ty, isReady |-> isReady,
                          clusterName |-> name, prev |-> prev]
               /\ pcWorker' = AfterUpdate(prev, isReady)
    /\ muHeld' = TRUE
    /\ evCount' = evCount + 1
    /\ live' = IF ty = "DELETED" THEN live \ {k} ELSE live \cup {k}
    /\ UNCHANGED <<selfCancels, parentCancelled>>
    /\ UNCHANGED <<mainVars, handlerVars>>
    /\ UNCHANGED <<waitVars, pureVars>>

\* case ev := <-ch with a document: lock mu, update readyMap and ready
WorkerRecvEvent(k, ty, conds, name) ==
    /\ pcWorker = "select"
    /\ evCount < MaxEvents
    /\ IF ty = "ADDED" THEN k \notin live ELSE k \in live
    /\ LET isReady == IsReadyDoc(conds)
           prev == readyMap[k]
       IN /\ readyMap' = [readyMap EXCEPT ![k] = ReadyTag(isReady)]
          /\ ready' = CountAfter(prev, isReady, ready)
          /\ cur' = [key |-> k, type |-> ty, isReady |-> isReady,
                     clusterName |-> name, prev |-> prev]
          /\ pcWorker' = AfterUpdate(prev, isReady)
    /\ muHeld' = TRUE
    /\ evCount' = evCount + 1
    /\ live' = IF ty = "DELETED" THEN live \ {k} ELSE live \cup {k}
    /\ UNCHANGED <<selfCancels, parentCancelled>>
    /\ UNCHANGED <<mainVars, handlerVars>>
    /\ UNCHANGED <<waitVars, pureVars>>

\* an event with a nil object or one that is not an unstructured document
WorkerSkipEvent ==
    /\ pcWorker = "select"
    /\ evCount < MaxEvents
    /\ evCount' = evCount + 1
    /\ UNCHANGED <<pcWorker, muHeld, readyMap, ready, cur, live, selfCancels,
                   parentCancelled>>
    /\ UNCHANGED <<mainVars, handlerVars>>
    /\ UNCHANGED <<waitVars, pureVars>>

\* the result channel is closed
WorkerChanClosed ==
    /\ pcWorker = "select"
    /\ pcWorker' = "exited"
    /\ UNCHANGED <<muHeld, readyMap, ready, cur, evCount, live, selfCancels,
                   parentCancelled>>
    /\ UNCHANGED <<mainVars, handlerVars>>
    /\ UNCHANGED <<waitVars, pureVars>>

\* case <-stopCh
WorkerStop ==
    /\ pcWorker = "select"
    /\ stopClosed
    /\ pcWorker' = "exited"
    /\ UNCHANGED <<muHeld, readyMap, ready, cur, evCount, live, selfCancels,
                   parentCancelled>>
    /\ UNCHANGED <<mainVars, handlerVars>>
    /\ UNCHANGED <<waitVars, pureVars>>

\* a handler that stores whatever the fetch gave before looking at it
handleReadyXkube_cachesFirst(fetch, listOk, secrets, res) ==
    LET target == getClusterNameFromXkube(cur)
        base == [key |-> cur.key, target |-> target, outcome |-> "none",
                 secrets |-> <<>>, disp |-> <<>>]
    IN
    IF target = ""
    THEN /\ lastRun' = [base EXCEPT !.outcome = "noname"]
         /\ UNCHANGED <<cache, deployed, okApplies, delivered>>
    ELSE IF fetch # "kc"
    THEN /\ cache' = setReady(cache, target, "")
         /\ lastRun' = [base EXCEPT !.outcome = "nofetch"]
         /\ UNCHANGED <<deployed, okApplies, delivered>>
    ELSE IF ~listOk
    THEN /\ cache' = setReady(cache, target, "kc")
         /\ lastRun' = [base EXCEPT !.outcome = "listerr"]
         /\ UNCHANGED <<deployed, okApplies, delivered>>
    ELSE LET out == ApplyLoop(secrets, 1, target, res,
                              [deployed |-> deployed, disp |-> <<>>])
             okIdx == {i \in DOMAIN secrets : out.disp[i] = "ok"}
         IN /\ cache' = setReady(cache, target, "kc")
            /\ deployed' = out.deployed
            /\ okApplies' =
                 [p \in Pairs |->
                    okApplies[p] + Cardinality({i \in okIdx :
                        <<secrets[i].label, target>> = p})]
            /\ delivered' = delivered \cup
                 {<<secrets[i].name, target>> : i \in okIdx}
            /\ lastRun' = [base EXCEPT !.outcome = "done",
                                       !.secrets = secrets,
                                       !.disp = out.disp]

\* handleReadyXkube(obj), the whole call
handleReadyXkube(fetch, listOk, secrets, res) ==
    LET target == getClusterNameFromXkube(cur)
        base == [key |-> cur.key, target |-> target, outcome |-> "none",
                 secrets |-> <<>>, disp |-> <<>>]
    IN
    IF target = ""
    THEN /\ lastRun' = [base EXCEPT !.outcome = "noname"]
         /\ UNCHANGED <<cache, deployed, okApplies, delivered>>
    ELSE IF fetch # "kc"
    THEN /\ lastRun' = [base EXCEPT !.outcome = "nofetch"]
         /\ UNCHANGED <<cache, deployed, okApplies, delivered>>
    ELSE IF ~listOk
    THEN /\ cache' = setReady(cache, target, "kc")
         /\ lastRun' = [base EXCEPT !.outcome = "listerr"]
         /\ UNCHANGED <<deployed, okApplies, delivered>>
    ELSE LET out == ApplyLoop(secrets, 1, target, res,
                              [deployed |-> deployed, disp |-> <<>>])
             okIdx == {i \in DOMAIN secrets : out.disp[i] = "ok"}
         IN /\ cache' = setReady(cache, target, "kc")
            /\ deployed' = out.deployed
            /\ okApplies' =
                 [p \in Pairs |->
                    okApplies[p] + Cardinality({i \in okIdx :
                        <<secrets[i].label, target>> = p})]
            /\ delivered' = delivered \cup
                 {<<secrets[i].name, target>> : i \in okIdx}
            /\ lastRun' = [base EXCEPT !.outcome = "done",
                                       !.secrets = secrets,
                                       !.disp = out.disp]

WorkerHandleReady ==
    /\ pcWorker = "handler"
    /\ \/ \E fetch \in FetchOutcomes :
             handleReadyXkube(fetch, FALSE, <<>>, <<>>)
       \/ \E secrets \in SecretLists :
             \E res \in [DOMAIN secrets -> ApplyOutcomes] :
                handleReadyXkube("kc", TRUE, secrets, res)
    /\ handled' = handled \cup {cur.key}
    /\ pcWorker' = "check"
    /\ UNCHANGED <<muHeld, readyMap, ready, cur, evCount, live, selfCancels,
                   parentCancelled>>
    /\ UNCHANGED mainVars
    /\ UNCHANGED <<waitVars, pureVars>>

\* a termination test without "and there is at least one"
AllReady_anyTotal == ready = total

\* "stop when all are ready (and there is at least one)"
AllReady == total > 0 /\ ready = total

\* the check after the handler: cancel and return, or unlock and loop
WorkerTermCheck ==
    /\ pcWorker = "check"
    /\ muHeld' = FALSE
    /\ IF AllReady
       THEN /\ cancelCalled' = TRUE
            /\ selfCancels' = selfCancels + 1
            /\ pcWorker' = "exited"
            /\ cur' = cur
       ELSE /\ pcWorker' = "select"
            /\ cur' = NoEvent
            /\ UNCHANGED <<cancelCalled, selfCancels>>
    /\ UNCHANGED <<pcMain, runResult, stopClosed, listedKeys, total,
                   parentCancelled>>
    /\ UNCHANGED <<readyMap, ready, evCount, live>>
    /\ lastRun' = IF AllReady THEN lastRun ELSE NoRun
    /\ UNCHANGED <<cache, deployed, handled, okApplies, delivered>>
    /\ UNCHANGED <<waitVars, pureVars>>

-----------------------------------------------------------------------------

Next ==
    \/ \E L \in SUBSET Keys : RunList(L)
    \/ RunListFails
    \/ RunWatch
    \/ RunWatchFails
    \/ RunUnblock
    \/ RunJoin
    \/ ParentCancel
    \/ \E k \in Keys, ty \in ChangeTypes, conds \in DocConds :
          \E name \in {"", NameOf(k)} : WorkerRecvEvent(k, ty, conds, name)
    \/ WorkerSkipEvent
    \/ WorkerChanClosed
    \/ WorkerStop
    \/ WorkerHandleReady
    \/ WorkerTermCheck

Spec == Init /\ [][Next]_vars

\* the Go scheduler runs both goroutines; a select with several ready cases
\* picks each of them eventually
FairSpec ==
    /\ Spec
    /\ WF_vars(RunUnblock)
    /\ WF_vars(RunJoin)
    /\ WF_vars(WorkerHandleReady)
    /\ WF_vars(WorkerTermCheck)
    /\ SF_vars(WorkerStop)

-----------------------------------------------------------------------------
(* Properties of the controller *)

\* the consumer has just taken an event with a document
TakesEvent == pcWorker = "select" /\ pcWorker' \in {"handler", "check"}

\* the consumer has just returned from handleReadyXkube
HandlerReturns == pcWorker = "handler" /\ pcWorker' = "check"

\* every initially listed object is Ready in the readiness map
AllListedReady ==
    /\ total > 0
    /\ \A k \in listedKeys : readyMap[k] = "ready"

\* C1: when the consumer cancels the controller's context, every object of
\* the initial listing has last-known readiness Ready.
C1_SelfTerminationSafety ==
    selfCancels > 0 => \A k \in listedKeys : readyMap[k] = "ready"

C3_Original ==
    [][(TakesEvent /\ cur'.isReady /\ cur'.prev = "ready")
         => (ready' = ready /\ pcWorker' # "handler")]_vars

\* C3 amended: the handler is invoked for every event whose document is
\* Ready and for no other; an event that leaves an object's readiness as it
\* was changes no counter; each invocation is one call for the event's key.
C3_HandlerOnEveryReadyEvent ==
    /\ [][TakesEvent =>
            /\ (pcWorker' = "handler") <=> cur'.isReady
            /\ (cur'.prev = ReadyTag(cur'.isReady)) => ready' = ready]_vars
    /\ [][pcWorker = "handler" /\ pcWorker' # "handler" =>
            /\ HandlerReturns
            /\ lastRun'.key = cur.key
            /\ lastRun'.outcome # "none"]_vars
    /\ [][lastRun' # lastRun /\ lastRun'.outcome # "none" =>
            HandlerReturns]_vars

C3_Witness ==
    /\ pcWorker = "check"
    /\ cur.isReady /\ cur.prev = "ready"
    /\ lastRun.key = cur.key /\ lastRun.outcome = "done"

\* indices of the secrets for which the latest handler call issued an apply
Issued(run) == {i \in DOMAIN run.disp : run.disp[i] \in {"ok", "fail"}}

\* C4: once (source, target) is marked, no apply is issued for a secret of
\* that source to that target, so each pair gets at most one successful
\* apply per run.
C4_PropagationIdempotence ==
    /\ [](\A p \in Pairs : okApplies[p] <= 1)
    /\ [][HandlerReturns =>
            \A i \in Issued(lastRun') :
               /\ <<lastRun'.secrets[i].label, lastRun'.target>> \notin deployed
               /\ \A j \in 1..(i - 1) :
                     lastRun'.secrets[j].label = lastRun'.secrets[i].label
                        => lastRun'.disp[j] # "ok"]_vars

C4_Witness ==
    /\ lastRun.outcome = "done"
    /\ \E i \in DOMAIN lastRun.disp :
          /\ lastRun.disp[i] = "already"
          /\ okApplies[<<lastRun.secrets[i].label, lastRun.target>>] = 1
    /\ cur.prev = "ready"

\* C5: when the handler for target T returns after a successful fetch and
\* listing with every issued apply succeeding, each listed secret whose label
\* is non-empty and differs from T, and that was not delivered to T before,
\* has been applied to T.
C5_CompleteForwarding ==
    [][(HandlerReturns /\ lastRun'.outcome = "done"
          /\ \A i \in DOMAIN lastRun'.disp : lastRun'.disp[i] # "fail")
         => \A i \in DOMAIN lastRun'.secrets :
              LET sec == lastRun'.secrets[i] IN
              (sec.label # "" /\ sec.label # lastRun'.target
                 /\ <<sec.name, lastRun'.target>> \notin delivered)
                => <<sec.name, lastRun'.target>> \in delivered']_vars

-----------------------------------------------------------------------------
\* C18: Run's blocking wait ends when the consumer goroutine has exited:
\* once the consumer is gone while Run is blocked, Run eventually returns,
\* with or without a cancellation by the caller.
C18_ReturnsWhenWorkerExits ==
    (pcWorker = "exited" /\ pcMain = "blocked") ~> pcMain = "returned"

\* the locks held after the first n lock operations of a call
HeldAfter(ops, n) ==
    {l \in {"readyMu", "deployedMu"} :
        \E a \in 1..n :
           /\ ops[a] = LockOp(l, "Lock")
           /\ \A b \in (a + 1)..n : ops[b] # LockOp(l, "Unlock")}

\* C19: once the controller's context is cancelled, by the consumer or by
\* the caller, the consumer exits and Run returns nil; mu is held exactly
\* from the Lock of an iteration to its Unlock, so never at the select or
\* after the consumer's exit; and no handleReadyXkube call holds the cache
\* lock and the matrix lock together or returns with one held.
C19_ShutdownAndLocks ==
    /\ (childDone /\ pcMain = "blocked")
          ~> (pcWorker = "exited" /\ pcMain = "returned"
                /\ runResult = "nil")
    /\ [](muHeld <=> pcWorker \in {"handler", "check"})
    /\ [](LET ops == HandlerLocks(lastRun) IN
          /\ \A n \in 0..Len(ops) : Cardinality(HeldAfter(ops, n)) <= 1
          /\ HeldAfter(ops, Len(ops)) = {})

C19_Witness ==
    /\ pcMain = "returned"
    /\ parentCancelled
    /\ selfCancels = 0
    /\ pcWorker = "exited"
    /\ deployed # {}

-----------------------------------------------------------------------------

C22_NoSelfDelivery ==
    /\ \A i \in Issued(lastRun) :
          /\ lastRun.secrets[i].label # ""
          /\ lastRun.secrets[i].label # lastRun.target
    /\ \A p \in deployed : p[1] # p[2] /\ p[1] # "" /\ p[2] # ""
    /\ \A p \in Pairs : okApplies[p] > 0 => p[1] # p[2]
    /\ \A d \in delivered :
          \A s \in Secrets : s.name = d[1] => (s.label # "" /\ s.label # d[2])

C22_Witness ==
    /\ lastRun.outcome = "done"
    /\ Len(lastRun.secrets) = 2
    /\ lastRun.secrets[1].label = lastRun.target
    /\ lastRun.disp = <<"skip", "ok">>

\* C24: a pair is in the matrix only if an apply of a secret of that source
\* to that target has returned nil in this run, and no step of Run or of
\* the handler takes a pair out of the matrix.
C24_MarkedAfterApply ==
    /\ [](\A p \in deployed : p \in Pairs /\ okApplies[p] >= 1)
    /\ [][deployed \subseteq deployed']_vars

C24_Witness ==
    /\ Cardinality(deployed) = 2
    /\ lastRun.outcome = "done"
    /\ \E i \in DOMAIN lastRun.disp : lastRun.disp[i] = "fail"

-----------------------------------------------------------------------------

\* the keys the readiness map holds as Ready
ReadyKeys == {k \in Keys : readyMap[k] = "ready"}

\* C25: the ready counter equals the number of keys the map holds as Ready
\* and is never negative; an event that turns a tracked Ready object into
\* NotReady lowers it by one, calls no handler and leaves the credential
\* cache and the matrix as they are; an event that leaves an object's
\* readiness as it was leaves the counter as it was.
C25_ReadyCounter ==
    /\ [](ready = Cardinality(ReadyKeys) /\ ready >= 0)
    /\ [][(TakesEvent /\ readyMap[cur'.key] = "ready" /\ ~cur'.isReady)
            => /\ ready' = ready - 1
               /\ pcWorker' = "check"
               /\ UNCHANGED <<cache, deployed, handled>>]_vars
    /\ [][(pcWorker = "check" /\ ~cur.isReady)
            => UNCHANGED <<cache, deployed, handled>>]_vars
    /\ [][(TakesEvent /\ readyMap[cur'.key] = ReadyTag(cur'.isReady))
            => ready' = ready]_vars

C25_Witness ==
    /\ pcWorker = "check"
    /\ cur.prev = "ready"
    /\ ~cur.isReady
    /\ ready = 1
    /\ readyMap[cur.key] = "notready"
    /\ cache[NameOf(cur.key)] = "kc"

\* C26: the consumer goroutine is started once, by Run when the watch is
\* established, and is never started again; events are taken one at a time
\* and only at the select, with mu free and the event before fully handled;
\* the readiness map and the counter change only in the step that takes an
\* event; a handler call is in progress only for the event being handled.
C26_SingleConsumer ==
    /\ [][(pcWorker = "none" /\ pcWorker' # "none")
            => (pcMain = "watch" /\ pcMain' = "blocked"
                  /\ pcWorker' = "select")]_vars
    /\ [][(pcWorker # "none" => pcWorker' # "none")
            /\ (pcWorker = "exited" => pcWorker' = "exited")]_vars
    /\ [][evCount' # evCount
            => /\ evCount' = evCount + 1
               /\ pcWorker = "select" /\ ~muHeld /\ cur = NoEvent]_vars
    /\ [][(readyMap' # readyMap \/ ready' # ready)
            => (evCount' = evCount + 1 /\ muHeld')]_vars
    /\ [](pcWorker = "handler" => (muHeld /\ cur # NoEvent /\ cur.isReady))

C26_Witness ==
    /\ evCount = 3
    /\ pcWorker = "handler"
    /\ Cardinality(handled) = 2

\* the initial listing succeeded and held no object
EmptyListing ==
    /\ pcMain \in {"watch", "blocked", "wgwait", "returned"}
    /\ runResult # "listErr"
    /\ listedKeys = {}

\* C28: after an empty initial listing the consumer never cancels, whatever
\* the watch delivers; a Ready event still gets its handler call; and Run
\* leaves its blocking wait and returns nil only once the caller has
\* cancelled.
C28_EmptyListing ==
    /\ [](EmptyListing =>
            /\ total = 0
            /\ selfCancels = 0
            /\ (pcMain = "wgwait" \/ runResult = "nil") => parentCancelled)
    /\ [][(EmptyListing /\ TakesEvent /\ cur'.isReady)
            => pcWorker' = "handler"]_vars
    /\ [][(EmptyListing /\ pcWorker = "check") => pcWorker' # "exited"]_vars

C28_Witness ==
    /\ EmptyListing
    /\ pcMain = "returned"
    /\ runResult = "nil"
    /\ ReadyKeys = Keys
    /\ handled = Keys

\* C29: Run returns an error only when the initial List or the Watch fails,
\* and then no consumer was started, no event taken and no handler run;
\* once the consumer exists Run returns nil, whether the consumer cancelled
\* or the caller did, and whatever the handlers met.
C29_RunResult ==
    /\ (pcMain = "returned") <=> (runResult # "none")
    /\ runResult \in {"none", "nil", "listErr", "watchErr"}
    /\ runResult \in {"listErr", "watchErr"} =>
          /\ pcWorker = "none"
          /\ evCount = 0
          /\ handled = {}
          /\ lastRun = NoRun
    /\ (pcMain = "returned" /\ pcWorker # "none") => runResult = "nil"
    /\ runResult = "nil" =>
          /\ pcWorker = "exited"
          /\ selfCancels = 1 \/ parentCancelled

C29_Witness ==
    /\ pcMain = "returned"
    /\ runResult = "nil"
    /\ parentCancelled
    /\ selfCancels = 0
    /\ handled # {}
    /\ \A n \in ClusterNames : cache[n] = ""

\* C30: what the consumer does with an event is fixed by the document and
\* the map entry of its key, whatever the change type: the key gets the
\* document's readiness, the counter follows, a Ready document gets the
\* handler call; no key ever leaves the map; so a delete event with a Ready
\* document can complete the all-ready condition.
C30_ChangeTypeIgnored ==
    /\ [][\A k \in Keys :
            readyMap[k] # "absent" => readyMap'[k] # "absent"]_vars
    /\ [][TakesEvent =>
            LET e == cur' IN
            /\ readyMap' = [readyMap EXCEPT ![e.key] = ReadyTag(e.isReady)]
            /\ ready' = Cardinality({k \in Keys : readyMap'[k] = "ready"})
            /\ pcWorker' = IF e.isReady THEN "handler" ELSE "check"]_vars
    /\ [][(pcWorker = "check" /\ pcWorker' # "check" /\ total > 0
             /\ Cardinality(ReadyKeys) = total)
            => (pcWorker' = "exited" /\ selfCancels' = selfCancels + 1)]_vars

C30_Witness ==
    /\ selfCancels = 1
    /\ cur.type = "DELETED"
    /\ cur.isReady
    /\ cur.key \in handled
    /\ readyMap[cur.key] = "ready"

-----------------------------------------------------------------------------

(* WaitForResourcesReadySequential and waitForSingleResourceReady *)

\* a WaitResourceSpec, reduced to what the waiter computes with
\* (Timeout and PollInterval in clock units)
Descriptors == [Timeout : {1, 2}, PollInterval : {1, 2}]

ResourceLists == UNION { [1..n -> Descriptors] : n \in 0..MaxRes }

\* what one Get may answer: IsNotFound, another error, the object without
\* the condition true, the object with the condition true
ReadOutcomes == {"notfound", "error", "notready", "ready"}

\* apierrors.IsNotFound(err), or any other err: both branches "continue"
IsTransient(outcome) == outcome \in {"notfound", "error"}

InitWait ==
    /\ CtlInit
    /\ resources \in ResourceLists
    /\ wpc = "begin"
    /\ idx = 0
    /\ completed = 0
    /\ events = <<>>
    /\ wresult = [status |-> "none", index |-> 0]
    /\ waitCancelled = FALSE
    /\ now = 0
    /\ deadline = 0
    /\ nextTick = 0
    /\ tickPending = FALSE
    /\ reads = [i \in DOMAIN resources |-> 0]
    /\ ticks = [i \in DOMAIN resources |-> 0]
    /\ firstReady = {}
    /\ wlog = <<>>
    /\ cancelAt = 0
    /\ sawTransient = FALSE
    /\ PureIdle

\* a percent that divides in integers before scaling
OverallPercent_intDiv(c, t) == (c \div t) * 100000

\* a percent computed from what remains instead of what is done
OverallPercent_remaining(c, t) == ((t - c) * 100000) \div t

\* float64(completed) / float64(total) * 100, in thousandths of a percent
OverallPercent(c, t) == (c * 100000) \div t

ProgressEvent(msg, i, pct, done, isErr) ==
    [msg |-> msg, index |-> i, total |-> Len(resources), percent |-> pct,
     completed |-> done, err |-> isErr]

LogEntry(op, i) == [op |-> op, index |-> i]

LogAppend(l, e) == IF l # <<>> /\ l[Len(l)] = e THEN l ELSE Append(l, e)

\* a poll loop that watches the parent context only
ctxDone_parentOnly == waitCancelled

\* ctx.Done() of the per-resource context is readable
ctxDone == waitCancelled \/ now >= deadline

\* a closure that reads the descriptor after the current one
ReadTarget_next(i) == IF i < Len(resources) THEN i + 1 ELSE i

\* the descriptor getFn reads: the loop's copy of the current spec
ReadTarget(i) == i

\* an immediate read whose result is not looked at
FirstGetSucceeds_never(outcome) == FALSE

\* the immediate read ends the wait when it shows the condition true
FirstGetSucceeds(outcome) == outcome = "ready"

\* len(resources) == 0 returns nil; otherwise total and completed are set
WaitBegin ==
    /\ wpc = "begin"
    /\ IF Len(resources) = 0
       THEN /\ wpc' = "done"
            /\ wresult' = [status |-> "nil", index |-> 0]
            /\ idx' = idx
       ELSE /\ wpc' = "loop"
            /\ idx' = 1
            /\ wresult' = wresult
    /\ completed' = 0
    /\ UNCHANGED <<resources, events, waitCancelled, now, deadline, nextTick,
                   tickPending, reads, ticks, firstReady, wlog, cancelAt,
                   sawTransient>>
    /\ UNCHANGED <<ctlVars, pureVars>>

\* top of the loop body: the "Waiting for" event, then context.WithTimeout
LoopHead ==
    /\ wpc = "loop"
    /\ events' = Append(events,
          ProgressEvent("waiting", idx,
                        OverallPercent(completed, Len(resources)),
                        FALSE, FALSE))
    /\ wlog' = LogAppend(wlog, LogEntry("waiting", idx))
    /\ now' = 0
    /\ deadline' = resources[idx].Timeout
    /\ wpc' = "firstGet"
    /\ sawTransient' = FALSE
    /\ UNCHANGED <<resources, idx, completed, wresult, waitCancelled,
                   nextTick, tickPending, reads, ticks, firstReady, cancelAt>>
    /\ UNCHANGED <<ctlVars, pureVars>>

\* waitForSingleResourceReady returned nil: completed++, the "is Ready"
\* event, and the loop moves on (or WaitForResourcesReadySequential
\* returns nil after the last descriptor); log is the log so far
Succeed(log) ==
    /\ completed' = completed + 1
    /\ events' = Append(events,
          ProgressEvent("ready", idx,
                        OverallPercent(completed + 1, Len(resources)),
                        TRUE, FALSE))
    /\ wlog' = LogAppend(log, LogEntry("ready", idx))
    /\ IF idx = Len(resources)
       THEN /\ wpc' = "done"
            /\ wresult' = [status |-> "nil", index |-> 0]
            /\ idx' = idx
       ELSE /\ wpc' = "loop"
            /\ idx' = idx + 1
            /\ wresult' = wresult

\* the immediate Get and what follows it
FirstGet(outcome) ==
    /\ wpc = "firstGet"
    /\ LET t == ReadTarget(idx) IN
       /\ reads' = [reads EXCEPT ![t] = @ + 1]
       /\ firstReady' = IF outcome = "ready" THEN firstReady \cup {t}
                                            ELSE firstReady
       /\ IF FirstGetSucceeds(outcome)
          THEN /\ Succeed(LogAppend(wlog, LogEntry("read", t)))
               /\ UNCHANGED <<nextTick, tickPending>>
          ELSE /\ wlog' = LogAppend(wlog, LogEntry("read", t))
               /\ nextTick' = now + resources[idx].PollInterval
               /\ tickPending' = FALSE
               /\ wpc' = "select"
               /\ UNCHANGED <<idx, completed, events, wresult>>
    /\ sawTransient' = (sawTransient \/ IsTransient(outcome))
    /\ UNCHANGED <<resources, waitCancelled, now, deadline, ticks, cancelAt>>
    /\ UNCHANGED <<ctlVars, pureVars>>

\* a poll iteration that gives up when the Get returns an error other than
\* not-found
SelectTick_failsOnError(outcome) ==
    /\ wpc = "select"
    /\ tickPending
    /\ tickPending' = FALSE
    /\ LET t == ReadTarget(idx) IN
       /\ reads' = [reads EXCEPT ![t] = @ + 1]
       /\ ticks' = [ticks EXCEPT ![idx] = @ + 1]
       /\ IF outcome = "ready"
          THEN Succeed(LogAppend(wlog, LogEntry("read", t)))
          ELSE IF outcome = "error"
          THEN /\ events' = Append(events,
                     ProgressEvent("error", idx,
                                   OverallPercent(completed, Len(resources)),
                                   FALSE, TRUE))
               /\ wlog' = LogAppend(LogAppend(wlog, LogEntry("read", t)),
                                    LogEntry("error", idx))
               /\ wresult' = [status |-> "err", index |-> idx]
               /\ wpc' = "done"
               /\ UNCHANGED <<idx, completed>>
          ELSE /\ wlog' = LogAppend(wlog, LogEntry("read", t))
               /\ UNCHANGED <<wpc, idx, completed, events, wresult>>
    /\ sawTransient' = (sawTransient \/ IsTransient(outcome))
    /\ cancelAt' = IF outcome = "ready" THEN 0 ELSE cancelAt
    /\ UNCHANGED <<resources, waitCancelled, now, deadline, nextTick,
                   firstReady>>
    /\ UNCHANGED <<ctlVars, pureVars>>

\* case <-ticker.C: one more Get
SelectTick(outcome) ==
    /\ wpc = "select"
    /\ tickPending
    /\ tickPending' = FALSE
    /\ LET t == ReadTarget(idx) IN
       /\ reads' = [reads EXCEPT ![t] = @ + 1]
       /\ ticks' = [ticks EXCEPT ![idx] = @ + 1]
       /\ IF outcome = "ready"
          THEN Succeed(LogAppend(wlog, LogEntry("read", t)))
          ELSE /\ wlog' = LogAppend(wlog, LogEntry("read", t))
               /\ UNCHANGED <<wpc, idx, completed, events, wresult>>
    /\ sawTransient' = (sawTransient \/ IsTransient(outcome))
    /\ cancelAt' = IF outcome = "ready" THEN 0 ELSE cancelAt
    /\ UNCHANGED <<resources, waitCancelled, now, deadline, nextTick,
                   firstReady>>
    /\ UNCHANGED <<ctlVars, pureVars>>

\* a failure path that goes on with the next descriptor
SelectDone_continues ==
    /\ wpc = "select"
    /\ ctxDone
    /\ events' = Append(events,
          ProgressEvent("error", idx,
                        OverallPercent(completed, Len(resources)),
                        FALSE, TRUE))
    /\ wlog' = LogAppend(wlog, LogEntry("error", idx))
    /\ IF idx = Len(resources)
       THEN /\ wresult' = [status |-> "err", index |-> idx]
            /\ wpc' = "done"
            /\ idx' = idx
       ELSE /\ wresult' = wresult
            /\ wpc' = "loop"
            /\ idx' = idx + 1
    /\ cancelAt' = 0
    /\ sawTransient' = FALSE
    /\ UNCHANGED <<resources, completed, waitCancelled, now, deadline,
                   nextTick, tickPending, reads, ticks, firstReady>>
    /\ UNCHANGED <<ctlVars, pureVars>>

\* case <-ctx.Done(): waitForSingleResourceReady returns the error, the
\* "Error waiting for" event is sent and the error is returned
SelectDone ==
    /\ wpc = "select"
    /\ ctxDone
    /\ events' = Append(events,
          ProgressEvent("error", idx,
                        OverallPercent(completed, Len(resources)),
                        FALSE, TRUE))
    /\ wlog' = LogAppend(wlog, LogEntry("error", idx))
    /\ wresult' = [status |-> "err", index |-> idx]
    /\ wpc' = "done"
    /\ cancelAt' = 0
    /\ sawTransient' = FALSE
    /\ UNCHANGED <<resources, idx, completed, waitCancelled, now, deadline,
                   nextTick, tickPending, reads, ticks, firstReady>>
    /\ UNCHANGED <<ctlVars, pureVars>>

\* the clock advances; a running ticker puts a tick in its channel
ClockTick ==
    /\ wpc \in {"firstGet", "select"}
    /\ now < deadline + MaxOverrun
    /\ now' = now + 1
    /\ IF wpc = "select" /\ now + 1 >= nextTick
       THEN /\ tickPending' = TRUE
            /\ nextTick' = nextTick + resources[idx].PollInterval
       ELSE UNCHANGED <<tickPending, nextTick>>
    /\ UNCHANGED <<resources, wpc, idx, completed, events, wresult,
                   waitCancelled, deadline, reads, ticks, firstReady, wlog,
                   cancelAt, sawTransient>>
    /\ UNCHANGED <<ctlVars, pureVars>>

\* the caller cancels parentCtx
WaitParentCancel ==
    /\ wpc \in {"begin", "loop", "firstGet", "select"}
    /\ ~waitCancelled
    /\ waitCancelled' = TRUE
    /\ cancelAt' = IF wpc = "select" THEN idx ELSE 0
    /\ UNCHANGED <<resources, wpc, idx, completed, events, wresult, now,
                   deadline, nextTick, tickPending, reads, ticks, firstReady,
                   wlog, sawTransient>>
    /\ UNCHANGED <<ctlVars, pureVars>>

NextWait ==
    \/ WaitBegin
    \/ LoopHead
    \/ \E outcome \in ReadOutcomes : FirstGet(outcome)
    \/ \E outcome \in ReadOutcomes : SelectTick(outcome)
    \/ SelectDone
    \/ ClockTick
    \/ WaitParentCancel

SpecWait == InitWait /\ [][NextWait]_vars

\* the waiter's goroutine runs, the clock advances, and a select whose
\* Done case stays ready takes it eventually
FairSpecWait ==
    /\ SpecWait
    /\ WF_vars(WaitBegin)
    /\ WF_vars(LoopHead)
    /\ WF_vars(\E outcome \in ReadOutcomes : FirstGet(outcome))
    /\ WF_vars(ClockTick)
    /\ SF_vars(SelectDone)

-----------------------------------------------------------------------------
(* Properties of the waiter *)

Failed(k) == wresult.status = "err" /\ wresult.index = k

Awaiting(k) == wpc \in {"firstGet", "select"} /\ idx = k

ReportedCompleted(k) ==
    \E n \in DOMAIN events : events[n].index = k /\ events[n].completed

\* C6: when the wait for descriptor k ends in timeout or cancellation the
\* error for k is returned at once; no read, no progress event exists for a
\* later descriptor, and nothing more happens afterwards.
C6_StopsAtFirstFailure ==
    /\ [][(Len(events') > Len(events) /\ events'[Len(events')].err)
            => (wpc' = "done" /\ Failed(idx)')]_vars
    /\ [](\A k \in DOMAIN resources : Failed(k) =>
            /\ wpc = "done"
            /\ \A j \in DOMAIN resources : j > k => reads[j] = 0
            /\ \A n \in DOMAIN events : events[n].index <= k
            /\ \A n \in DOMAIN wlog : wlog[n].index <= k)
    /\ [][wresult.status = "err" => UNCHANGED <<reads, events, wlog>>]_vars

C6_Witness ==
    /\ Failed(1)
    /\ Len(resources) >= 2
    /\ reads[1] >= 2

\* position of an operation within the wait for one descriptor
OpRank(op) == CASE op = "waiting" -> 1 [] op = "read" -> 2 [] OTHER -> 3

\* descriptors whose "waiting" event was sent and whose wait has not ended
AwaitedSet ==
    {k \in DOMAIN resources :
        /\ \E n \in DOMAIN wlog : wlog[n] = LogEntry("waiting", k)
        /\ \A n \in DOMAIN wlog :
              wlog[n].index = k => wlog[n].op \in {"waiting", "read"}}

\* C7: descriptors are handled in input order without overlap: everything
\* done for descriptor i (waiting event, reads, completed event) precedes
\* everything done for a later descriptor, and at most one is awaited.
C7_StrictOrder ==
    /\ \A a, b \in DOMAIN wlog : a < b =>
          /\ wlog[a].index <= wlog[b].index
          /\ wlog[a].index = wlog[b].index =>
                OpRank(wlog[a].op) < OpRank(wlog[b].op)
    /\ \A k \in DOMAIN resources :
          reads[k] > 0 <=> \E n \in DOMAIN wlog : wlog[n] = LogEntry("read", k)
    /\ Cardinality(AwaitedSet) <= 1

C7_Witness ==
    /\ wresult.status = "nil"
    /\ Len(resources) = 2
    /\ reads[1] >= 2 /\ reads[2] >= 2

\* C8: a wait for descriptor k ends: unless a read shows the condition true,
\* WaitAll returns the error for descriptor k, and only once the context is
\* done; the deadline is set when the wait starts and no read moves it.
C8_TimeoutTerminates ==
    /\ \A k \in 1..MaxRes :
          Awaiting(k) ~> (Failed(k) \/ ReportedCompleted(k))
    /\ [](\A k \in DOMAIN resources : Failed(k) => ctxDone)
    /\ [][\A k \in DOMAIN resources :
            (Awaiting(k) /\ Awaiting(k)') => deadline' = deadline]_vars

C8_Witness ==
    /\ \E k \in DOMAIN resources :
          /\ Failed(k)
          /\ reads[k] >= 2
    /\ ~waitCancelled
    /\ now >= deadline

\* C9: a descriptor whose immediate read shows the condition true gets that
\* one read only, consumes no poll tick and is reported completed.
C9_ImmediateSuccess ==
    \A k \in DOMAIN resources :
       k \in firstReady =>
          /\ reads[k] = 1
          /\ ticks[k] = 0
          /\ ReportedCompleted(k)

C9_Witness ==
    /\ Len(resources) >= 2
    /\ 2 \in firstReady
    /\ wresult.status = "nil"

\* C10: a successful WaitAll over N >= 1 descriptors sends exactly 2N
\* events: event 2k-1 is the "waiting" event of descriptor k at
\* (k-1)/N*100 percent, event 2k its "completed" event at k/N*100 percent,
\* and the last event carries 100.
C10_ProgressEvents ==
    LET N == Len(resources) IN
    (wresult.status = "nil" /\ N >= 1) =>
       /\ Len(events) = 2 * N
       /\ \A k \in 1..N :
             /\ events[2 * k - 1] =
                   [msg |-> "waiting", index |-> k, total |-> N,
                    percent |-> ((k - 1) * 100000) \div N,
                    completed |-> FALSE, err |-> FALSE]
             /\ events[2 * k] =
                   [msg |-> "ready", index |-> k, total |-> N,
                    percent |-> (k * 100000) \div N,
                    completed |-> TRUE, err |-> FALSE]
       /\ events[2 * N].percent = 100000

C10_Witness ==
    /\ wresult.status = "nil"
    /\ Len(resources) = 2
    /\ Len(events) = 4
    /\ reads[1] >= 2

\* C11: in one WaitAll run, ending well or not, the percent of every
\* progress event (waiting, completed, error) lies within 0..100 and no
\* event carries a lower percent than an earlier one.
C11_PercentMonotone ==
    /\ \A n \in DOMAIN events :
          events[n].percent >= 0 /\ events[n].percent <= 100000
    /\ \A a, b \in DOMAIN events :
          a < b => events[a].percent <= events[b].percent

C11_Witness ==
    /\ Failed(2)
    /\ Len(events) = 4
    /\ events[2].completed
    /\ events[4].err
    /\ events[4].percent = 50000

-----------------------------------------------------------------------------
(* ResolveResourceNamesFromManifest and extractManifestName *)

\* an object of the cluster as the dynamic client lists it: its name and
\* namespace, the resource type it belongs to, and the three fields a
\* manifest name is read from ("" where the field is absent)
Item(name, ns, resource, manifestName, chartName, generateName) ==
    [name |-> name, ns |-> ns, resource |-> resource,
     manifestName |-> manifestName, chartName |-> chartName,
     generateName |-> generateName]

ItemPool ==
    { Item("o1", "ns1", "objects", "a", "", "b"),
      Item("o2", "ns1", "objects", "b", "", ""),
      Item("o3", "ns2", "objects", "b", "", ""),
      Item("r1", "ns1", "releases", "", "a", "b"),
      Item("i1", "", "images", "", "", "a"),
      Item("x1", "ns1", "xkubes", "a", "a", "a") }

\* a cluster holds each object once, in some list order
Clusters ==
    UNION { { c \in [1..n -> ItemPool] :
                \A a, b \in 1..n : a # b => c[a] # c[b] } : n \in 0..MaxItems }

\* a WaitResourceSpec, reduced to what the resolver computes with
WaitResourceSpec(name, manifestMetadataName, resource, namespace) ==
    [Name |-> name, ManifestMetadataName |-> manifestMetadataName,
     Resource |-> resource, Namespace |-> namespace]

ResolveSpecs ==
    { WaitResourceSpec("given", "a", "objects", ""),
      WaitResourceSpec("", "", "objects", ""),
      WaitResourceSpec("", "a", "objects", ""),
      WaitResourceSpec("", "b", "objects", ""),
      WaitResourceSpec("", "b", "objects", "ns2"),
      WaitResourceSpec("", "a", "releases", ""),
      WaitResourceSpec("", "a", "images", ""),
      WaitResourceSpec("", "a", "xkubes", "") }

ResolveLists == UNION { [1..n -> ResolveSpecs] : n \in 0..MaxRes }

InitResolve ==
    /\ CtlInit
    /\ WaitIdle
    /\ ApplyIdle
    /\ rspecs \in ResolveLists
    /\ rspecs0 = rspecs
    /\ cluster \in Clusters
    /\ rpc = "run"
    /\ ri = 1
    /\ rresult = [status |-> "none", index |-> 0]
    /\ rlists = [i \in DOMAIN rspecs |-> 0]
    /\ cobj = NoObject
    /\ ctype = ""
    /\ cpc = "idle"
    /\ cresult = FALSE

\* the switch of extractManifestName: the field per resource type, or the
\* "unsupported GVR resource" error
extractManifestName(obj, resource) ==
    CASE resource = "objects" ->
            [name |-> obj.manifestName, err |-> FALSE]
      [] resource = "releases" ->
            [name |-> obj.chartName, err |-> FALSE]
      [] resource \in {"instancetypes", "images"} ->
            [name |-> obj.generateName, err |-> FALSE]
      [] OTHER ->
            [name |-> "", err |-> TRUE]

\* resClient.List or resClient.Namespace(ns).List when it succeeds
ListItems(resource, namespace) ==
    SelectSeq(cluster, LAMBDA it :
        it.resource = resource /\ (namespace = "" \/ it.ns = namespace))

RECURSIVE FindName_lastMatch(_, _, _, _)
\* a scan without the break: the last matching item wins
FindName_lastMatch(items, n, spec, found) ==
    IF n > Len(items) THEN [name |-> found, err |-> FALSE]
    ELSE LET m == extractManifestName(items[n], spec.Resource) IN
         IF m.err THEN [name |-> "", err |-> TRUE]
         ELSE IF m.name = spec.ManifestMetadataName
              THEN FindName_lastMatch(items, n + 1, spec, items[n].name)
              ELSE FindName_lastMatch(items, n + 1, spec, found)

RECURSIVE FindName(_, _, _, _)
\* the loop over list.Items from item n on: an extraction error returns, the
\* first item whose manifest name matches sets foundName and breaks
FindName(items, n, spec, found) ==
    IF n > Len(items) THEN [name |-> found, err |-> FALSE]
    ELSE LET m == extractManifestName(items[n], spec.Resource) IN
         IF m.err THEN [name |-> "", err |-> TRUE]
         ELSE IF m.name = spec.ManifestMetadataName
              THEN [name |-> items[n].name, err |-> FALSE]
              ELSE FindName(items, n + 1, spec, found)

\* the test at the top of the loop body, negated
NeedsResolving(spec) == spec.Name = "" /\ spec.ManifestMetadataName # ""

ResolveError(reason) == [status |-> "err", index |-> ri, reason |-> reason]

\* "continue": nothing to resolve for this descriptor
ResolveSkip ==
    /\ rpc = "run"
    /\ ri <= Len(rspecs)
    /\ ~NeedsResolving(rspecs[ri])
    /\ ri' = ri + 1
    /\ UNCHANGED <<rspecs, rspecs0, cluster, rpc, rresult, rlists>>
    /\ UNCHANGED <<ctlVars, waitVars, condVars, applyVars>>

\* the List call returns an error
ResolveListFails ==
    /\ rpc = "run"
    /\ ri <= Len(rspecs)
    /\ NeedsResolving(rspecs[ri])
    /\ rlists' = [rlists EXCEPT ![ri] = @ + 1]
    /\ rresult' = ResolveError("list")
    /\ rpc' = "done"
    /\ UNCHANGED <<rspecs, rspecs0, cluster, ri>>
    /\ UNCHANGED <<ctlVars, waitVars, condVars, applyVars>>

\* a variant that leaves an unresolved descriptor and goes on
ResolveListed_continues ==
    /\ rpc = "run"
    /\ ri <= Len(rspecs)
    /\ NeedsResolving(rspecs[ri])
    /\ rlists' = [rlists EXCEPT ![ri] = @ + 1]
    /\ LET spec == rspecs[ri]
           f == FindName(ListItems(spec.Resource, spec.Namespace), 1,
                         spec, "") IN
       /\ rspecs' = IF f.err \/ f.name = "" THEN rspecs
                    ELSE [rspecs EXCEPT ![ri].Name = f.name]
       /\ ri' = ri + 1
       /\ UNCHANGED <<rpc, rresult>>
    /\ UNCHANGED <<rspecs0, cluster>>
    /\ UNCHANGED <<ctlVars, waitVars, condVars, applyVars>>

\* the List call succeeds: scan, then either an error or spec.Name is set
ResolveListed ==
    /\ rpc = "run"
    /\ ri <= Len(rspecs)
    /\ NeedsResolving(rspecs[ri])
    /\ rlists' = [rlists EXCEPT ![ri] = @ + 1]
    /\ LET spec == rspecs[ri]
           f == FindName(ListItems(spec.Resource, spec.Namespace), 1,
                         spec, "") IN
       IF f.err
       THEN /\ rresult' = ResolveError("extract")
            /\ rpc' = "done"
            /\ UNCHANGED <<rspecs, ri>>
       ELSE IF f.name = ""
       THEN /\ rresult' = ResolveError("notfound")
            /\ rpc' = "done"
            /\ UNCHANGED <<rspecs, ri>>
       ELSE /\ rspecs' = [rspecs EXCEPT ![ri].Name = f.name]
            /\ ri' = ri + 1
            /\ UNCHANGED <<rpc, rresult>>
    /\ UNCHANGED <<rspecs0, cluster>>
    /\ UNCHANGED <<ctlVars, waitVars, condVars, applyVars>>

\* the loop is over: return nil
ResolveReturn ==
    /\ rpc = "run"
    /\ ri > Len(rspecs)
    /\ rresult' = [status |-> "nil", index |-> 0]
    /\ rpc' = "done"
    /\ UNCHANGED <<rspecs, rspecs0, cluster, ri, rlists>>
    /\ UNCHANGED <<ctlVars, waitVars, condVars, applyVars>>

NextResolve ==
    \/ ResolveSkip
    \/ ResolveListFails
    \/ ResolveListed
    \/ ResolveReturn

SpecResolve == InitResolve /\ [][NextResolve]_vars

-----------------------------------------------------------------------------
(* Properties of the resolver *)

\* positions, in the listing a descriptor asks for, of the items whose
\* fingerprint field equals the descriptor's fingerprint
MatchPositions(spec) ==
    LET L == ListItems(spec.Resource, spec.Namespace) IN
    {n \in DOMAIN L :
        LET m == extractManifestName(L[n], spec.Resource) IN
        ~m.err /\ m.name = spec.ManifestMetadataName}

FirstPosition(S) == CHOOSE n \in S : \A m \in S : n <= m

\* a resource type the fingerprint table has no entry for: extraction fails
\* for whatever object
NoTableEntry(resource) ==
    \A it \in ItemPool : extractManifestName(it, resource).err

\* C12: when ResolveNames returns nil, every descriptor that came with an
\* empty name and a non-empty fingerprint carries the name of the first
\* item, in list order, of its resource type (and namespace) whose
\* fingerprint field equals its fingerprint; every other descriptor is
\* unchanged and caused no list call.
C12_ExactFirstMatch ==
    rresult.status = "nil" =>
       \A i \in DOMAIN rspecs0 :
          IF NeedsResolving(rspecs0[i])
          THEN LET S == MatchPositions(rspecs0[i])
                   L == ListItems(rspecs0[i].Resource, rspecs0[i].Namespace)
               IN /\ S # {}
                  /\ rspecs[i] =
                        [rspecs0[i] EXCEPT !.Name = L[FirstPosition(S)].name]
          ELSE /\ rspecs[i] = rspecs0[i]
               /\ rlists[i] = 0

C12_Witness ==
    /\ rresult.status = "nil"
    /\ Len(rspecs) = 2
    /\ rspecs0[1].ManifestMetadataName = "b" /\ rspecs0[1].Namespace = ""
    /\ Cardinality(MatchPositions(rspecs0[1])) = 2
    /\ rspecs[1].Name = "o3"
    /\ ~NeedsResolving(rspecs0[2])

\* C13: when, for descriptor k, the listing fails, the resource type has no
\* entry in the fingerprint table or no item matches, ResolveNames returns
\* an error at once: descriptor k and the later ones keep their names, no
\* list call is made for a later descriptor; and nil is never returned while
\* a descriptor with a non-empty fingerprint has an empty name.
C13_FailFast ==
    /\ [][(rpc = "run" /\ ri <= Len(rspecs) /\ NeedsResolving(rspecs[ri])
             /\ (\/ ResolveListFails
                 \/ NoTableEntry(rspecs[ri].Resource)
                 \/ MatchPositions(rspecs[ri]) = {}))
            => (rpc' = "done" /\ rresult'.status = "err"
                  /\ rresult'.index = ri)]_vars
    /\ [](rresult.status = "err" =>
            /\ rpc = "done"
            /\ NeedsResolving(rspecs0[rresult.index])
            /\ \A j \in DOMAIN rspecs :
                  j >= rresult.index => rspecs[j] = rspecs0[j]
            /\ \A j \in DOMAIN rspecs : j > rresult.index => rlists[j] = 0)
    /\ [](rresult.status = "nil" =>
            \A j \in DOMAIN rspecs :
               rspecs[j].ManifestMetadataName # "" => rspecs[j].Name # "")

C13_Witness ==
    /\ rresult.status = "err"
    /\ rresult.index = 1
    /\ rresult.reason = "notfound"
    /\ Len(rspecs) = 2
    /\ NeedsResolving(rspecs0[2])
    /\ MatchPositions(rspecs0[2]) # {}

\* C16: a read answered with not-found or with another error, be it the
\* immediate read or the read of any tick, leaves the wait running: no
\* error event, no result; a read that then shows the condition true
\* completes the descriptor; and the wait gets its error result only in a
\* step taken when the deadline has passed or the context is cancelled.
C16_TransientReads ==
    /\ [][(\E o \in {"notfound", "error"} : FirstGet(o) \/ SelectTick(o))
            => /\ wpc' = "select" /\ idx' = idx
               /\ wresult' = wresult
               /\ events' = events
               /\ completed' = completed
               /\ sawTransient']_vars
    /\ [][\A k \in DOMAIN resources :
            (idx = k /\ sawTransient /\ SelectTick("ready"))
               => /\ ReportedCompleted(k)'
                  /\ completed' = completed + 1
                  /\ wresult'.status # "err"]_vars
    /\ [][(wresult.status # "err" /\ wresult'.status = "err")
            => (waitCancelled \/ now >= deadline)]_vars

C16_Witness ==
    /\ wresult.status = "nil"
    /\ sawTransient
    /\ reads[Len(resources)] >= 2
    /\ ~waitCancelled
    /\ now < deadline

\* C17: once parentCtx is cancelled while descriptor k is in its poll loop,
\* the poll loop of k is left only with the error for k: k is not reported
\* completed afterwards and no read is issued for a later descriptor,
\* whether or not a poll tick is pending.
C17_CancelAbortsCurrent ==
    [][\A k \in DOMAIN resources :
         cancelAt = k =>
            /\ (wpc' = "select" /\ idx' = k) \/ Failed(k)'
            /\ ReportedCompleted(k)' => ReportedCompleted(k)
            /\ \A j \in DOMAIN resources : j > k => reads'[j] = 0]_vars

-----------------------------------------------------------------------------
(* IsConditionTrue, isConditionTrue and stringsEqualFoldTrue *)

CondTypes == {"Ready", "ready", "Synced"}

\* values a status field may hold ("" also stands for a field that is
\* absent or not a string: NestedString then yields "")
StatusStrings ==
    {"True", "TRUE", "true", "tRUE", "TrUe", "False", "Unknown", ""}

CondEntries ==
    {NotAMap} \cup {Cond(t, s) : t \in CondTypes \cup {""}, s \in StatusStrings}

CondLists == UNION { [1..n -> CondEntries] : n \in 0..MaxConds }

\* the resource argument: nil, an object without a status map, an object
\* whose status has no conditions slice, an object with a conditions slice
Objects ==
    {NoObject,
     [kind |-> "nostatus", conds |-> <<>>],
     [kind |-> "noconds", conds |-> <<>>]}
    \cup {[kind |-> "conds", conds |-> l] : l \in CondLists}

InitCond ==
    /\ CtlInit
    /\ WaitIdle
    /\ ApplyIdle
    /\ rspecs = <<>>
    /\ rspecs0 = <<>>
    /\ cluster = <<>>
    /\ rpc = "idle"
    /\ ri = 0
    /\ rresult = [status |-> "none", index |-> 0]
    /\ rlists = <<>>
    /\ cobj \in Objects
    /\ ctype \in {"Ready", "Synced"}
    /\ cpc = "call"
    /\ cresult = FALSE

\* the bytes of a status string
Chars(s) ==
    CASE s = "True" -> <<"T", "r", "u", "e">>
      [] s = "TRUE" -> <<"T", "R", "U", "E">>
      [] s = "true" -> <<"t", "r", "u", "e">>
      [] s = "tRUE" -> <<"t", "R", "U", "E">>
      [] s = "TrUe" -> <<"T", "r", "U", "e">>
      [] s = "False" -> <<"F", "a", "l", "s", "e">>
      [] s = "Unknown" -> <<"U", "n", "k", "n", "o", "w", "n">>
      [] OTHER -> <<>>

\* len(s) == 4 && (s == "True" || s == "TRUE" || s == "true")
stringsEqualFoldTrue(s) ==
    Len(Chars(s)) = 4 /\ (s = "True" \/ s = "TRUE" \/ s = "true")

RECURSIVE ScanConditions_stopsAtMalformed(_, _, _)
\* a scan that gives up at the first entry that is not a map
ScanConditions_stopsAtMalformed(conds, condType, i) ==
    IF i > Len(conds) THEN FALSE
    ELSE IF conds[i].kind # "map" THEN FALSE
    ELSE IF conds[i].type = condType /\ stringsEqualFoldTrue(conds[i].status)
         THEN TRUE
         ELSE ScanConditions_stopsAtMalformed(conds, condType, i + 1)

RECURSIVE ScanConditions(_, _, _)
\* the loop over conds from entry i on: an entry that is not a map is
\* skipped, the first entry with the type and a true status returns true
ScanConditions(conds, condType, i) ==
    IF i > Len(conds) THEN FALSE
    ELSE IF conds[i].kind # "map"
         THEN ScanConditions(conds, condType, i + 1)
    ELSE IF conds[i].type = condType /\ stringsEqualFoldTrue(conds[i].status)
         THEN TRUE
         ELSE ScanConditions(conds, condType, i + 1)

isConditionTrue(obj, condType) ==
    IF obj.kind = "nil" THEN FALSE
    ELSE IF obj.kind = "nostatus" THEN FALSE
    ELSE IF obj.kind = "noconds" THEN FALSE
    ELSE ScanConditions(obj.conds, condType, 1)

IsConditionTrue(obj, condType) == isConditionTrue(obj, condType)

\* the object a delivered document with the given conditions is
DocObject(conds) == [kind |-> "conds", conds |-> conds]

\* C23: for every document delivered by the watch, the readiness the
\* controller assigns to the object equals IsConditionTrue(document, "Ready"),
\* also for status "true" or "TRUE" and for several conditions of type Ready.
C23_ClassificationViaEvaluator ==
    [][\A conds \in DocConds :
         (\E k \in Keys, ty \in ChangeTypes :
             \E name \in {"", NameOf(k)} : WorkerRecvEvent(k, ty, conds, name))
         => cur'.isReady = IsConditionTrue(DocObject(conds), "Ready")]_vars

\* one call of IsConditionTrue
CondCall ==
    /\ cpc = "call"
    /\ cresult' = IsConditionTrue(cobj, ctype)
    /\ cpc' = "done"
    /\ UNCHANGED <<cobj, ctype>>
    /\ UNCHANGED <<ctlVars, waitVars, resolveVars, applyVars>>

NextCond == CondCall

SpecCond == InitCond /\ [][NextCond]_vars

-----------------------------------------------------------------------------
(* Properties of the condition evaluator *)

ToLower(ch) ==
    CASE ch = "T" -> "t" [] ch = "R" -> "r" [] ch = "U" -> "u"
      [] ch = "E" -> "e" [] ch = "F" -> "f" [] OTHER -> ch

\* s equals "true" when letter case is ignored
EqualsTrueIgnoringCase(s) ==
    LET cs == Chars(s) IN
    /\ Len(cs) = 4
    /\ [i \in 1..4 |-> ToLower(cs[i])] = <<"t", "r", "u", "e">>

\* C14: IsConditionTrue returns true exactly when some entry of
\* status.conditions has type equal to the condition type asked for (case
\* matters) and a status that equals "true" when letter case is ignored,
\* whatever the casing ("True", "TRUE", "true", "tRUE", "TrUe").
C14_TrueIffMatchIgnoringCase ==
    cpc = "done" =>
       (cresult <=>
          /\ cobj.kind = "conds"
          /\ \E i \in DOMAIN cobj.conds :
                /\ cobj.conds[i].kind = "map"
                /\ cobj.conds[i].type = ctype
                /\ EqualsTrueIgnoringCase(cobj.conds[i].status))

\* the entries of a conditions list that are maps, in order
WellFormed(conds) == SelectSeq(conds, LAMBDA c : c.kind = "map")

\* C15: IsConditionTrue returns false for a nil resource, for an object
\* without status or without status.conditions, and when every condition
\* of the type has status False or Unknown; entries that are not records
\* are skipped, so the answer is the answer for the list without them.
C15_FalseCases ==
    cpc = "done" =>
       /\ cobj.kind \in {"nil", "nostatus", "noconds"} => ~cresult
       /\ (\A i \in DOMAIN cobj.conds :
              (cobj.conds[i].kind = "map" /\ cobj.conds[i].type = ctype)
                 => cobj.conds[i].status \in {"False", "Unknown"})
            => ~cresult
       /\ cobj.kind = "conds" =>
             cresult = IsConditionTrue(
                          [cobj EXCEPT !.conds = WellFormed(cobj.conds)],
                          ctype)

C15_Witness ==
    /\ cpc = "done"
    /\ cobj.kind = "conds"
    /\ Len(cobj.conds) = 2
    /\ cobj.conds[1] = NotAMap
    /\ cobj.conds[2] = Cond(ctype, "True")
    /\ cresult

-----------------------------------------------------------------------------
(* Controller.applySecretToRemote *)

\* strings.TrimSpace on the credentials the model hands in
TrimSpace(s) == IF s = " " THEN "" ELSE s

\* the kc argument; the origin secret's Data[remoteSecretKey] (absent, of
\* length 0, bytes that do not unmarshal, a definition that does); the
\* metadata.name and metadata.namespace of the decoded definition; whether
\* GetClientsetFromString(kc) fails
ApplyInputs ==
    [kc : {"", " ", "kc"},
     data : {"missing", "empty", "invalid", "valid"},
     name : {"", "remote-name"},
     namespace : {"", "remote-ns"},
     clientErr : BOOLEAN]

\* what the target holds at the embedded namespace/name when the call starts
RemoteStates == {[exists |-> FALSE, rv |-> 0], [exists |-> TRUE, rv |-> 1]}

InitApply ==
    /\ CtlInit
    /\ WaitIdle
    /\ rspecs = <<>>
    /\ rspecs0 = <<>>
    /\ cluster = <<>>
    /\ rpc = "idle"
    /\ ri = 0
    /\ rresult = [status |-> "none", index |-> 0]
    /\ rlists = <<>>
    /\ cobj = NoObject
    /\ ctype = ""
    /\ cpc = "idle"
    /\ cresult = FALSE
    /\ ain \in ApplyInputs
    /\ apc = "start"
    /\ existing = 0
    /\ acalls = <<>>
    /\ aresult = "none"
    /\ remote \in RemoteStates
    /\ otherWrites = 0

\* a request sent to the target and what the target answered
Request(op, rv, outcome) ==
    [op |-> op, namespace |-> ain.namespace, name |-> ain.name, rv |-> rv,
     outcome |-> outcome]

\* an update that sends the decoded definition with its own version
UpdateRequest_ownVersion(outcome) == Request("update", 0, outcome)

\* remoteSecret.ResourceVersion = existing.ResourceVersion, then Update
UpdateRequest(outcome) == Request("update", existing, outcome)

\* the checks before any request: the first that fails gives the error
ValidationError ==
    IF TrimSpace(ain.kc) = "" THEN "emptyKubeconfig"
    ELSE IF ain.data = "missing" \/ ain.data = "empty" THEN "missingKey"
    ELSE IF ain.data = "invalid" THEN "unmarshal"
    ELSE IF ain.name = "" \/ ain.namespace = "" THEN "missingNameOrNamespace"
    ELSE IF ain.clientErr THEN "clientset"
    ELSE "none"

\* from the entry of the function to the first request
ApplyValidate ==
    /\ apc = "start"
    /\ IF ValidationError # "none"
       THEN /\ aresult' = ValidationError
            /\ apc' = "done"
       ELSE /\ aresult' = aresult
            /\ apc' = "get"
    /\ UNCHANGED <<ain, existing, acalls, remote, otherWrites>>
    /\ UNCHANGED <<ctlVars, waitVars, resolveVars, condVars>>

\* Secrets(namespace).Get: the object, not-found, or another error (the
\* 20 s timeout, the connection)
ApplyGet ==
    /\ apc = "get"
    /\ \E fails \in BOOLEAN :
         IF fails
         THEN /\ acalls' = Append(acalls, Request("get", 0, "error"))
              /\ aresult' = "get"
              /\ apc' = "done"
              /\ existing' = existing
         ELSE IF ~remote.exists
         THEN /\ acalls' = Append(acalls, Request("get", 0, "notFound"))
              /\ aresult' = aresult
              /\ apc' = "create"
              /\ existing' = existing
         ELSE /\ acalls' = Append(acalls, Request("get", remote.rv, "found"))
              /\ aresult' = aresult
              /\ apc' = "update"
              /\ existing' = remote.rv
    /\ UNCHANGED <<ain, remote, otherWrites>>
    /\ UNCHANGED <<ctlVars, waitVars, resolveVars, condVars>>

\* Secrets(namespace).Create after a not-found: the target rejects it when
\* the object exists by now; whatever the answer, the function returns
ApplyCreate ==
    /\ apc = "create"
    /\ \E fails \in BOOLEAN :
         IF remote.exists
         THEN /\ acalls' = Append(acalls, Request("create", 0, "alreadyExists"))
              /\ aresult' = "create"
              /\ remote' = remote
         ELSE IF fails
         THEN /\ acalls' = Append(acalls, Request("create", 0, "error"))
              /\ aresult' = "create"
              /\ remote' = remote
         ELSE /\ acalls' = Append(acalls, Request("create", 0, "ok"))
              /\ aresult' = "nil"
              /\ remote' = [exists |-> TRUE, rv |-> remote.rv + 1]
    /\ apc' = "done"
    /\ UNCHANGED <<ain, existing, otherWrites>>
    /\ UNCHANGED <<ctlVars, waitVars, resolveVars, condVars>>

\* Secrets(namespace).Update with the version the get returned: the target
\* rejects it when the object is gone or its version has moved on
ApplyUpdate ==
    /\ apc = "update"
    /\ \E fails \in BOOLEAN :
         LET sent == UpdateRequest("ok").rv
         IN IF ~remote.exists
            THEN /\ acalls' = Append(acalls, UpdateRequest("notFound"))
                 /\ aresult' = "update"
                 /\ remote' = remote
            ELSE IF sent # remote.rv
            THEN /\ acalls' = Append(acalls, UpdateRequest("conflict"))
                 /\ aresult' = "update"
                 /\ remote' = remote
            ELSE IF fails
            THEN /\ acalls' = Append(acalls, UpdateRequest("error"))
                 /\ aresult' = "update"
                 /\ remote' = remote
            ELSE /\ acalls' = Append(acalls, UpdateRequest("ok"))
                 /\ aresult' = "nil"
                 /\ remote' = [exists |-> TRUE, rv |-> remote.rv + 1]
    /\ apc' = "done"
    /\ UNCHANGED <<ain, existing, otherWrites>>
    /\ UNCHANGED <<ctlVars, waitVars, resolveVars, condVars>>

\* another client of the target creates, rewrites or deletes the object
\* while the call is under way
RemoteOtherWrite ==
    /\ apc \in {"start", "get", "create", "update"}
    /\ otherWrites < MaxOtherWrites
    /\ \E gone \in BOOLEAN :
         /\ gone => remote.exists
         /\ remote' = [exists |-> ~gone, rv |-> remote.rv + 1]
    /\ otherWrites' = otherWrites + 1
    /\ UNCHANGED <<ain, apc, existing, acalls, aresult>>
    /\ UNCHANGED <<ctlVars, waitVars, resolveVars, condVars>>

NextApply ==
    \/ ApplyValidate
    \/ ApplyGet
    \/ ApplyCreate
    \/ ApplyUpdate
    \/ RemoteOtherWrite

SpecApply == InitApply /\ [][NextApply]_vars

\* the requests of one kind the call has sent
CallsOf(op) == {i \in DOMAIN acalls : acalls[i].op = op}

ApplyErrors ==
    {"emptyKubeconfig", "missingKey", "unmarshal", "missingNameOrNamespace",
     "clientset", "get", "create", "update"}

\* the arguments pass every check made before the first request
UsableInput ==
    /\ ain.kc \notin {"", " "}
    /\ ain.data = "valid"
    /\ ain.name # ""
    /\ ain.namespace # ""
    /\ ~ain.clientErr

====
